---- MODULE Spec2Model ----
(***************************************************************************)
(* Model of oauth2client/google_credentials_json.py: GoogleCredentialsJson *)
(* builds (serialize_data), parses (load / loads) and validates            *)
(* (_validate_credential_object) Google credential JSON objects.           *)
(*                                                                         *)
(* Python values are records tagged by `py`: None, a str, or a dict whose  *)
(* `items` is a function from key to value.  A call ends in an outcome:    *)
(* a returned value or a raised exception.  JSON text is a separate        *)
(* representation (tagged by `json`) that json.loads decodes.              *)
(***************************************************************************)
EXTENDS Naturals, Sequences, FiniteSets

VARIABLES pc, input, call, result, reparsed

vars == <<pc, input, call, result, reparsed>>

\* Number of distinct sample strings a caller draws each field's value from.
NumVals == 1

\* Sample values per field (the first of each is the one the tests use).
SampleStrings ==
  [client_id |-> <<"123", "456", "789">>,
   client_email |-> <<"dummy@google.com", "other@google.com", "third@google.com">>,
   private_key_id |-> <<"ABCDEF", "GHIJKL", "MNOPQR">>,
   private_key |-> <<"localKeyID: 22 7E 04 FC", "localKeyID: 11 22 33 44", "">>,
   client_secret |-> <<"secret", "secret2", "">>,
   refresh_token |-> <<"alabalaportocala", "token2", "token3">>]

---------------------------------------------------------------------------
\* Python values

PyNone == [py |-> "None"]
PyStr(s) == [py |-> "str", s |-> s]
PyDict(items) == [py |-> "dict", items |-> items]

\* Marker for "argument not passed" / "key not in the object"; not a value.
Absent == [py |-> "absent"]

\* Python == on None and str values.
PyEq(a, b) == a.py = b.py /\ (a.py = "str" => a.s = b.s)

StrVals(field) == {PyStr(SampleStrings[field][i]) : i \in 1..NumVals}

---------------------------------------------------------------------------
\* Class attributes of GoogleCredentialsJson

TYPE_SERVICE_ACCOUNT == PyStr("service_account")
TYPE_AUTHORIZED_USER == PyStr("authorized_user")

TYPE_FIELD_NAME == "type"
CLIENT_ID_FIELD_NAME == "client_id"
CLIENT_EMAIL_FIELD_NAME == "client_email"
PRIVATE_KEY_ID_FIELD_NAME == "private_key_id"
PRIVATE_KEY_FIELD_NAME == "private_key"
CLIENT_SECRET_FIELD_NAME == "client_secret"
REFRESH_TOKEN_FIELD_NAME == "refresh_token"

TOKEN_URI_FIELD_NAME == "token_uri"
REVOKE_URI_FIELD_NAME == "revoke_uri"

REQUIRED_SERVICE_ACCOUNT_FIELDS_without_private_key ==
  {TYPE_FIELD_NAME, CLIENT_ID_FIELD_NAME, CLIENT_EMAIL_FIELD_NAME,
   PRIVATE_KEY_ID_FIELD_NAME}

REQUIRED_SERVICE_ACCOUNT_FIELDS ==
  {TYPE_FIELD_NAME, CLIENT_ID_FIELD_NAME, CLIENT_EMAIL_FIELD_NAME,
   PRIVATE_KEY_ID_FIELD_NAME, PRIVATE_KEY_FIELD_NAME}
REQUIRED_AUTHORIZED_USER_FIELDS ==
  {TYPE_FIELD_NAME, CLIENT_ID_FIELD_NAME, CLIENT_SECRET_FIELD_NAME,
   REFRESH_TOKEN_FIELD_NAME}

\* Process-wide defaults imported from the oauth2client package.
GOOGLE_REVOKE_URI == PyStr("GOOGLE_REVOKE_URI")
GOOGLE_TOKEN_URI == PyStr("GOOGLE_TOKEN_URI")

---------------------------------------------------------------------------
\* Outcomes of a call

InvalidCredentialModelError == "InvalidCredentialModelError"
KeyError == "KeyError"
TypeError == "TypeError"

Return(v) == [kind |-> "return", value |-> v, exc |-> "", msg |-> "", missing |-> {}]
Raise(e, m, fields) ==
  [kind |-> "raise", value |-> PyNone, exc |-> e, msg |-> m, missing |-> fields]
NoOutcome == [kind |-> "none", value |-> PyNone, exc |-> "", msg |-> "", missing |-> {}]

\* dict operations
EmptyDict == PyDict(<<>>)
HasKey(obj, k) == k \in DOMAIN obj.items
SetItem(obj, k, v) ==
  PyDict([x \in (DOMAIN obj.items) \cup {k} |-> IF x = k THEN v ELSE obj.items[x]])

---------------------------------------------------------------------------
\* GoogleCredentialsJson

raise_exception_for_missing_fields(missing_fields) ==
  Raise(InvalidCredentialModelError, "The following field(s) must be defined",
        missing_fields)

raise_exception_for_unknown_type ==
  Raise(InvalidCredentialModelError, "'type' field should be defined", {})

check_credential_type_any_str(credential_type) ==
  IF credential_type.py # "str"
  THEN raise_exception_for_unknown_type
  ELSE Return(PyNone)

check_credential_type(credential_type) ==
  IF ~(PyEq(credential_type, TYPE_SERVICE_ACCOUNT)
       \/ PyEq(credential_type, TYPE_AUTHORIZED_USER))
  THEN raise_exception_for_unknown_type
  ELSE Return(PyNone)

\* As if the type were read with credential_object.get(TYPE_FIELD_NAME).
validate_credential_object_get(credential_object) ==
  IF credential_object.py = "None"
  THEN Raise(InvalidCredentialModelError, "Empty credential object.", {})
  ELSE
    LET credential_type == IF HasKey(credential_object, TYPE_FIELD_NAME)
                           THEN credential_object.items[TYPE_FIELD_NAME]
                           ELSE PyNone
        checked == check_credential_type(credential_type)
        missing_fields ==
          IF PyEq(credential_type, TYPE_SERVICE_ACCOUNT)
          THEN REQUIRED_SERVICE_ACCOUNT_FIELDS \ DOMAIN credential_object.items
          ELSE REQUIRED_AUTHORIZED_USER_FIELDS \ DOMAIN credential_object.items
    IN IF checked.kind = "raise" THEN checked
       ELSE IF missing_fields # {}
       THEN raise_exception_for_missing_fields(missing_fields)
       ELSE Return(credential_object)

validate_credential_object(credential_object) ==
  IF credential_object.py = "None"
  THEN Raise(InvalidCredentialModelError, "Empty credential object.", {})
  ELSE IF ~HasKey(credential_object, TYPE_FIELD_NAME)
  THEN Raise(KeyError, TYPE_FIELD_NAME, {})
  ELSE
    LET credential_type == credential_object.items[TYPE_FIELD_NAME]
        checked == check_credential_type(credential_type)
        missing_fields ==
          IF PyEq(credential_type, TYPE_SERVICE_ACCOUNT)
          THEN REQUIRED_SERVICE_ACCOUNT_FIELDS \ DOMAIN credential_object.items
          ELSE REQUIRED_AUTHORIZED_USER_FIELDS \ DOMAIN credential_object.items
    IN IF checked.kind = "raise" THEN checked
       ELSE IF missing_fields # {}
       THEN raise_exception_for_missing_fields(missing_fields)
       ELSE Return(credential_object)

\* Variants of _set_optional_fields with one slip each.
set_optional_fields_swapped(obj, token_uri, revoke_uri) ==
  IF obj.py # "dict"
  THEN Raise(TypeError, "argument of type 'NoneType' is not iterable", {})
  ELSE
    LET o1 == IF ~HasKey(obj, TOKEN_URI_FIELD_NAME)
              THEN SetItem(obj, TOKEN_URI_FIELD_NAME, revoke_uri) ELSE obj
        o2 == IF ~HasKey(o1, REVOKE_URI_FIELD_NAME)
              THEN SetItem(o1, REVOKE_URI_FIELD_NAME, token_uri) ELSE o1
    IN Return(o2)

set_optional_fields_token_only(obj, token_uri, revoke_uri) ==
  IF obj.py # "dict"
  THEN Raise(TypeError, "argument of type 'NoneType' is not iterable", {})
  ELSE Return(IF ~HasKey(obj, TOKEN_URI_FIELD_NAME)
              THEN SetItem(obj, TOKEN_URI_FIELD_NAME, token_uri) ELSE obj)

set_optional_fields_overwrite(obj, token_uri, revoke_uri) ==
  IF obj.py # "dict"
  THEN Raise(TypeError, "argument of type 'NoneType' is not iterable", {})
  ELSE Return(SetItem(SetItem(obj, TOKEN_URI_FIELD_NAME, token_uri),
                      REVOKE_URI_FIELD_NAME, revoke_uri))

\* `name in obj` / `obj[name] = value` raise TypeError when obj is None.
set_optional_fields(obj, token_uri, revoke_uri) ==
  IF obj.py # "dict"
  THEN Raise(TypeError, "argument of type 'NoneType' is not iterable", {})
  ELSE
    LET o1 == IF ~HasKey(obj, TOKEN_URI_FIELD_NAME)
              THEN SetItem(obj, TOKEN_URI_FIELD_NAME, token_uri) ELSE obj
        o2 == IF ~HasKey(o1, REVOKE_URI_FIELD_NAME)
              THEN SetItem(o1, REVOKE_URI_FIELD_NAME, revoke_uri) ELSE o1
    IN Return(o2)

\* A keyword argument left out takes the default of the signature.
Param(arg, default) == IF arg.py = "absent" THEN default ELSE arg

\* `credential_type is constant`: object identity.  Whether a str equal to
\* the class constant is also the same object depends on how the caller
\* obtained it (interned literal or the class attribute: yes; a str built or
\* read at run time: no), so identity is an input, `same_object`.
Is(credential_type, same_object, constant) ==
  same_object /\ PyEq(credential_type, constant)

\* The tail shared by both branches of serialize_data:
\*   if include_optional_fields: credential_object = _set_optional_fields(...)
\*   return _validate_credential_object(credential_object)
optional_fields_then_validate_always(credential_object, include_optional_fields, token_uri, revoke_uri) ==
  LET filled == set_optional_fields(credential_object, token_uri, revoke_uri)
  IN IF filled.kind = "raise" THEN filled
     ELSE validate_credential_object(filled.value)

optional_fields_then_validate(credential_object, include_optional_fields, token_uri, revoke_uri) ==
  LET filled == IF include_optional_fields
                THEN set_optional_fields(credential_object, token_uri, revoke_uri)
                ELSE Return(credential_object)
  IN IF filled.kind = "raise" THEN filled
     ELSE validate_credential_object(filled.value)

serialize_data(a) ==
  LET credential_type == Param(a.credential_type, PyNone)
      client_id == Param(a.client_id, PyNone)
      client_email == Param(a.client_email, PyNone)
      client_secret == Param(a.client_secret, PyNone)
      private_key == Param(a.private_key, PyNone)
      private_key_id == Param(a.private_key_id, PyNone)
      refresh_token == Param(a.refresh_token, PyNone)
      token_uri == Param(a.token_uri, GOOGLE_TOKEN_URI)
      revoke_uri == Param(a.revoke_uri, GOOGLE_REVOKE_URI)
      include_optional_fields == a.include_optional_fields
      finish(credential_object) ==
        optional_fields_then_validate(credential_object, include_optional_fields,
                                      token_uri, revoke_uri)
  IN IF Is(credential_type, a.same_object, TYPE_SERVICE_ACCOUNT)
     THEN finish(
       SetItem(SetItem(SetItem(SetItem(SetItem(EmptyDict,
         TYPE_FIELD_NAME, TYPE_SERVICE_ACCOUNT),
         CLIENT_ID_FIELD_NAME, client_id),
         CLIENT_EMAIL_FIELD_NAME, client_email),
         PRIVATE_KEY_ID_FIELD_NAME, private_key_id),
         PRIVATE_KEY_FIELD_NAME, private_key))
     ELSE IF Is(credential_type, a.same_object, TYPE_AUTHORIZED_USER)
     THEN finish(
       SetItem(SetItem(SetItem(SetItem(EmptyDict,
         TYPE_FIELD_NAME, TYPE_AUTHORIZED_USER),
         CLIENT_ID_FIELD_NAME, client_id),
         CLIENT_SECRET_FIELD_NAME, client_secret),
         REFRESH_TOKEN_FIELD_NAME, refresh_token))
     ELSE
       \* raise an error if no valid credential_type provided; otherwise the
       \* function ends without a return statement and yields None
       LET checked == check_credential_type(credential_type)
       IN IF checked.kind = "raise" THEN checked ELSE Return(PyNone)

---------------------------------------------------------------------------
\* json: text <-> Python value.  A JSON text is null, a string literal, or
\* an object whose members are a sequence of <<name, value text>>.

JsonNull == [json |-> "null"]
JsonString(chars) == [json |-> "string", chars |-> chars]
JsonObject(members) == [json |-> "object", members |-> members]

\* Order in which an encoder writes the members of an object.
KeyOrder ==
  <<TYPE_FIELD_NAME, CLIENT_ID_FIELD_NAME, CLIENT_EMAIL_FIELD_NAME,
    PRIVATE_KEY_ID_FIELD_NAME, PRIVATE_KEY_FIELD_NAME,
    CLIENT_SECRET_FIELD_NAME, REFRESH_TOKEN_FIELD_NAME,
    TOKEN_URI_FIELD_NAME, REVOKE_URI_FIELD_NAME>>

JsonScalar(v) == IF v.py = "None" THEN JsonNull ELSE JsonString(v.s)

json_dumps(v) ==
  IF v.py = "dict"
  THEN LET names == SelectSeq(KeyOrder, LAMBDA k : k \in DOMAIN v.items)
       IN JsonObject([i \in 1..Len(names) |->
                        <<names[i], JsonScalar(v.items[names[i]])>>])
  ELSE JsonScalar(v)

PyScalar(t) == IF t.json = "null" THEN PyNone ELSE PyStr(t.chars)

RECURSIVE DecodeMembers(_, _)
DecodeMembers(members, obj) ==
  IF members = <<>> THEN obj
  ELSE DecodeMembers(Tail(members),
                     SetItem(obj, Head(members)[1], PyScalar(Head(members)[2])))

json_loads(t) ==
  IF t.json = "object" THEN DecodeMembers(t.members, EmptyDict) ELSE PyScalar(t)

\* load reads the whole stream and decodes it like loads
load(fp) ==
  LET obj == set_optional_fields(json_loads(fp), GOOGLE_TOKEN_URI, GOOGLE_REVOKE_URI)
  IN IF obj.kind = "raise" THEN obj ELSE validate_credential_object(obj.value)

loads(s) ==
  LET obj == set_optional_fields(json_loads(s), GOOGLE_TOKEN_URI, GOOGLE_REVOKE_URI)
  IN IF obj.kind = "raise" THEN obj ELSE validate_credential_object(obj.value)

---------------------------------------------------------------------------
\* Inputs

\* What a caller can give for a field: nothing, or one of its sample strings.
FieldArg(field) == {Absent} \cup StrVals(field)

FieldArgs ==
  {[client_id |-> id, client_email |-> email, private_key_id |-> kid,
    private_key |-> key, client_secret |-> secret, refresh_token |-> token] :
     id \in FieldArg(CLIENT_ID_FIELD_NAME),
     email \in FieldArg(CLIENT_EMAIL_FIELD_NAME),
     kid \in FieldArg(PRIVATE_KEY_ID_FIELD_NAME),
     key \in FieldArg(PRIVATE_KEY_FIELD_NAME),
     secret \in FieldArg(CLIENT_SECRET_FIELD_NAME),
     token \in FieldArg(REFRESH_TOKEN_FIELD_NAME)}

TokenUriArgs == {Absent, PyNone, PyStr("dummy_token_uri")}
RevokeUriArgs == {Absent, PyNone, PyStr("dummy_revoke_uri")}

\* <<credential_type argument, same object as the class constant>>
TypeArgs ==
  {<<TYPE_SERVICE_ACCOUNT, TRUE>>, <<TYPE_SERVICE_ACCOUNT, FALSE>>,
   <<TYPE_AUTHORIZED_USER, TRUE>>, <<TYPE_AUTHORIZED_USER, FALSE>>,
   <<PyStr("badtype"), FALSE>>, <<Absent, FALSE>>}

BuildArgs ==
  {[credential_type |-> t[1], same_object |-> t[2],
    client_id |-> f[CLIENT_ID_FIELD_NAME],
    client_email |-> f[CLIENT_EMAIL_FIELD_NAME],
    client_secret |-> f[CLIENT_SECRET_FIELD_NAME],
    private_key |-> f[PRIVATE_KEY_FIELD_NAME],
    private_key_id |-> f[PRIVATE_KEY_ID_FIELD_NAME],
    refresh_token |-> f[REFRESH_TOKEN_FIELD_NAME],
    token_uri |-> tu, revoke_uri |-> ru, include_optional_fields |-> inc] :
      t \in TypeArgs,
      f \in FieldArgs,
      tu \in TokenUriArgs, ru \in RevokeUriArgs, inc \in BOOLEAN}

\* The dict holding the keys of `choice` that are not Absent.
DictOf(choice) ==
  PyDict([k \in {x \in DOMAIN choice : choice[x].py # "absent"} |-> choice[k]])

FieldNames ==
  (REQUIRED_SERVICE_ACCOUNT_FIELDS \cup REQUIRED_AUTHORIZED_USER_FIELDS)
    \ {TYPE_FIELD_NAME}

\* Values of the `type` key of a decoded object (Absent: no such key).
TypeValues ==
  {Absent, PyNone, PyStr("badtype"), TYPE_SERVICE_ACCOUNT, TYPE_AUTHORIZED_USER}

\* The credential objects a caller or a JSON text can supply.
Objects ==
  {DictOf([k \in FieldNames \cup {TYPE_FIELD_NAME, TOKEN_URI_FIELD_NAME,
                                  REVOKE_URI_FIELD_NAME} |->
             IF k = TYPE_FIELD_NAME THEN t
             ELSE IF k = TOKEN_URI_FIELD_NAME THEN tu
             ELSE IF k = REVOKE_URI_FIELD_NAME THEN ru
             ELSE f[k]]) :
     t \in TypeValues, f \in FieldArgs,
     tu \in TokenUriArgs, ru \in RevokeUriArgs}

BuildInput(a) == [kind |-> "args", args |-> a, text |-> JsonNull, obj |-> PyNone]
TextInput(t) == [kind |-> "text", args |-> <<>>, text |-> t, obj |-> PyNone]
ObjectInput(o) == [kind |-> "object", args |-> <<>>, text |-> JsonNull, obj |-> o]

---------------------------------------------------------------------------
\* One call per behaviour: Init draws the call's input, an action makes the
\* call and records its outcome.

Init ==
  /\ pc = "ready"
  /\ call = "none"
  /\ result = NoOutcome
  /\ reparsed = NoOutcome
  /\ \/ \E a \in BuildArgs : input = BuildInput(a)
     \/ \E o \in Objects \cup {PyNone} : input = TextInput(json_dumps(o))
     \/ \E o \in Objects \cup {PyNone} : input = ObjectInput(o)

SerializeData ==
  /\ pc = "ready"
  /\ input.kind = "args"
  /\ call' = "serialize_data"
  /\ result' = serialize_data(input.args)
  /\ pc' = "done"
  /\ UNCHANGED <<input, reparsed>>

Load ==
  /\ pc = "ready"
  /\ input.kind = "text"
  /\ call' = "load"
  /\ result' = load(input.text)
  /\ pc' = "done"
  /\ UNCHANGED <<input, reparsed>>

Loads ==
  /\ pc = "ready"
  /\ input.kind = "text"
  /\ call' = "loads"
  /\ result' = loads(input.text)
  /\ pc' = "done"
  /\ UNCHANGED <<input, reparsed>>

Validate ==
  /\ pc = "ready"
  /\ input.kind = "object"
  /\ call' = "_validate_credential_object"
  /\ result' = validate_credential_object(input.obj)
  /\ pc' = "done"
  /\ UNCHANGED <<input, reparsed>>

\* The caller serializes what serialize_data returned and parses it again.
DumpsThenLoads ==
  /\ pc = "done"
  /\ call = "serialize_data"
  /\ result.kind = "return"
  /\ reparsed' = loads(json_dumps(result.value))
  /\ pc' = "reparsed"
  /\ UNCHANGED <<input, call, result>>

Next == SerializeData \/ Load \/ Loads \/ Validate \/ DumpsThenLoads

Spec == Init /\ [][Next]_vars

---------------------------------------------------------------------------
\* Vocabulary of the properties.  The variants and their required fields are
\* written out here as the data model states them, independently of the
\* class attributes above.

Variants == {PyStr("service_account"), PyStr("authorized_user")}

RequiredOf(V) ==
  IF V.s = "service_account"
  THEN {"type", "client_id", "client_email", "private_key_id", "private_key"}
  ELSE {"type", "client_id", "client_secret", "refresh_token"}

OptionalNames == {"token_uri", "revoke_uri"}

BuildCalled == input.kind = "args" /\ call = "serialize_data"
ParseCalled == input.kind = "text" /\ call \in {"load", "loads"}
ValidateCalled == input.kind = "object" /\ call = "_validate_credential_object"

ReturnedDocument(r) == r.kind = "return" /\ r.value.py = "dict"
FailedInvalid(r) == r.kind = "raise" /\ r.exc = "InvalidCredentialModelError"

\* The variant the caller of serialize_data asked for: V.
Requested(V) ==
  input.args.credential_type.py = "str" /\ input.args.credential_type.s = V.s

\* Every required field of V other than the discriminant was given a str.
FullyPopulated(V) ==
  \A k \in RequiredOf(V) \ {"type"} : input.args[k].py = "str"

\* Names and value texts of the members of a JSON object text.
MemberNames(t) == {t.members[i][1] : i \in 1..Len(t.members)}
MemberText(t, k) ==
  t.members[CHOOSE i \in 1..Len(t.members) : t.members[i][1] = k][2]
IsObjectText(t) == t.json = "object"

\* Python value v is what JSON value text t denotes.
Denotes(t, v) ==
  \/ t.json = "null" /\ v.py = "None"
  \/ t.json = "string" /\ v.py = "str" /\ v.s = t.chars

KnownTypeText(t) ==
  t.json = "string" /\ t.chars \in {"service_account", "authorized_user"}

---------------------------------------------------------------------------
\* C1: for each variant V and every assignment of strings to all of V's
\* required fields, serialize_data returns a document whose `type` is V and
\* in which every required field maps to the value supplied for it.
C1_BuildReturnsSuppliedFields ==
  \A V \in Variants :
    (BuildCalled /\ Requested(V) /\ FullyPopulated(V)) =>
      /\ ReturnedDocument(result)
      /\ RequiredOf(V) \subseteq DOMAIN result.value.items
      /\ result.value.items["type"] = V
      /\ \A k \in RequiredOf(V) \ {"type"} :
           result.value.items[k] = input.args[k]

\* C2: the key set of a document returned by serialize_data is exactly the
\* required-field set of the requested variant, plus token_uri and revoke_uri
\* if and only if include_optional_fields is true.
C2_BuildKeySet ==
  (BuildCalled /\ ReturnedDocument(result)) =>
    \E V \in Variants :
      /\ Requested(V)
      /\ DOMAIN result.value.items =
           RequiredOf(V) \cup
             (IF input.args.include_optional_fields THEN OptionalNames ELSE {})

C2_Witness ==
  /\ BuildCalled /\ ReturnedDocument(result)
  /\ Requested(PyStr("service_account"))
  /\ ~input.args.include_optional_fields
  /\ input.args.client_secret.py = "str"
  /\ input.args.token_uri.py = "str"
  /\ input.args.revoke_uri.py = "str"

\* C3: with include_optional_fields true, the returned document's token_uri
\* is the caller's token_uri argument when one is given and the process-wide
\* default otherwise, and likewise for revoke_uri, independently.
C3_BuildOptionalValues ==
  (BuildCalled /\ ReturnedDocument(result) /\ input.args.include_optional_fields) =>
    /\ OptionalNames \subseteq DOMAIN result.value.items
    /\ result.value.items["token_uri"] =
         (IF input.args.token_uri.py = "absent"
          THEN GOOGLE_TOKEN_URI ELSE input.args.token_uri)
    /\ result.value.items["revoke_uri"] =
         (IF input.args.revoke_uri.py = "absent"
          THEN GOOGLE_REVOKE_URI ELSE input.args.revoke_uri)

C3_Witness ==
  /\ BuildCalled /\ ReturnedDocument(result)
  /\ input.args.include_optional_fields
  /\ Requested(PyStr("authorized_user"))
  /\ input.args.token_uri = PyStr("dummy_token_uri")
  /\ input.args.revoke_uri.py = "absent"
  /\ result.value.items["revoke_uri"] = GOOGLE_REVOKE_URI

\* C4: serialize_data with a discriminant that is not one of the two known
\* strings (the default None included), and load/loads on a JSON object whose
\* `type` is not one of the two known strings, fail with
\* InvalidCredentialModelError, whatever else is supplied.
C4_UnknownTypeFails ==
  /\ (BuildCalled /\ ~(\E V \in Variants : Requested(V))) => FailedInvalid(result)
  /\ (/\ ParseCalled /\ IsObjectText(input.text)
      /\ "type" \in MemberNames(input.text)
      /\ ~KnownTypeText(MemberText(input.text, "type"))) => FailedInvalid(result)

C4_Witness ==
  /\ BuildCalled
  /\ input.args.credential_type = PyStr("badtype")
  /\ input.args.include_optional_fields
  /\ input.args.client_id.py = "str"
  /\ input.args.refresh_token.py = "str"
  /\ FailedInvalid(result)

\* C5: load/loads on a JSON object whose `type` is a known variant V fails
\* with InvalidCredentialModelError if and only if some required field of V is
\* not a key of the object, and the fields the error names are exactly the
\* required fields of V that are not keys of the object.
C5_MissingFieldsExact ==
  \A V \in Variants :
    (/\ ParseCalled /\ IsObjectText(input.text)
     /\ "type" \in MemberNames(input.text)
     /\ MemberText(input.text, "type") = JsonString(V.s)) =>
      LET missing == RequiredOf(V) \ MemberNames(input.text)
      IN /\ (result.kind = "raise") <=> (missing # {})
         /\ (missing # {}) => (FailedInvalid(result) /\ result.missing = missing)
         /\ (missing = {}) => ReturnedDocument(result)

C5_Witness ==
  /\ ParseCalled /\ call = "loads" /\ IsObjectText(input.text)
  /\ MemberNames(input.text) = {"type", "client_id"}
  /\ MemberText(input.text, "type") = JsonString("service_account")
  /\ FailedInvalid(result)
  /\ result.missing = {"client_email", "private_key_id", "private_key"}

\* C6: a document returned by load/loads holds every key of the input with
\* the input's value, token_uri and revoke_uri included when the input has
\* them, and holds the process-wide default for each of the two the input
\* lacks; so it always contains both optional keys.
C6_ParseBackfill ==
  (ParseCalled /\ ReturnedDocument(result)) =>
    /\ IsObjectText(input.text)
    /\ DOMAIN result.value.items = MemberNames(input.text) \cup OptionalNames
    /\ \A k \in MemberNames(input.text) :
         Denotes(MemberText(input.text, k), result.value.items[k])
    /\ "token_uri" \notin MemberNames(input.text) =>
         result.value.items["token_uri"] = GOOGLE_TOKEN_URI
    /\ "revoke_uri" \notin MemberNames(input.text) =>
         result.value.items["revoke_uri"] = GOOGLE_REVOKE_URI

C6_Witness ==
  /\ ParseCalled /\ call = "load" /\ ReturnedDocument(result)
  /\ "token_uri" \in MemberNames(input.text)
  /\ MemberText(input.text, "token_uri") = JsonString("dummy_token_uri")
  /\ "revoke_uri" \notin MemberNames(input.text)
  /\ result.value.items["token_uri"] = PyStr("dummy_token_uri")
  /\ result.value.items["revoke_uri"] = GOOGLE_REVOKE_URI

\* C7: a null document fails with InvalidCredentialModelError ("Empty
\* credential object."), both when None is handed to
\* _validate_credential_object and when load/loads decode JSON null.
C7_NullFailsInvalid ==
  (\/ ValidateCalled /\ input.obj.py = "None"
   \/ ParseCalled /\ input.text.json = "null") =>
    (FailedInvalid(result) /\ result.msg = "Empty credential object.")

\* C8: every document returned by serialize_data has all required fields of
\* its variant present and not None.
C8_BuildNoAbsentRequiredField ==
  \A V \in Variants :
    (BuildCalled /\ Requested(V) /\ ReturnedDocument(result)) =>
      \A k \in RequiredOf(V) :
        k \in DOMAIN result.value.items /\ result.value.items[k].py # "None"

\* C9: for a fully populated build with include_optional_fields true,
\* loads of the JSON serialization of the returned document succeeds and
\* yields a document equal to the built one.
C9_BuildDumpsLoadsRoundTrip ==
  \A V \in Variants :
    (/\ pc = "reparsed" /\ BuildCalled /\ Requested(V) /\ FullyPopulated(V)
     /\ input.args.include_optional_fields /\ ReturnedDocument(result)) =>
      /\ ReturnedDocument(reparsed)
      /\ reparsed.value = result.value

C9_Witness ==
  /\ pc = "reparsed" /\ BuildCalled
  /\ Requested(PyStr("service_account"))
  /\ FullyPopulated(PyStr("service_account"))
  /\ input.args.include_optional_fields
  /\ input.args.token_uri = PyStr("dummy_token_uri")
  /\ input.args.revoke_uri.py = "None"
  /\ ReturnedDocument(result) /\ ReturnedDocument(reparsed)
  /\ reparsed.value.items["token_uri"] = PyStr("dummy_token_uri")

\* C10: _validate_credential_object (and so load/loads) on a non-null
\* document without a `type` key fails with KeyError from the lookup, not
\* with InvalidCredentialModelError, and names no missing fields.
C10_NoTypeKeyError ==
  (\/ /\ ValidateCalled /\ input.obj.py = "dict"
      /\ "type" \notin DOMAIN input.obj.items
   \/ /\ ParseCalled /\ IsObjectText(input.text)
      /\ "type" \notin MemberNames(input.text)) =>
    /\ result.kind = "raise"
    /\ result.exc = "KeyError"
    /\ ~FailedInvalid(result)
    /\ result.missing = {}

C10_Witness ==
  /\ ParseCalled /\ call = "loads" /\ IsObjectText(input.text)
  /\ MemberNames(input.text) = {"client_id"}
  /\ result.kind = "raise" /\ result.exc = "KeyError"

====
